---------------------------- MODULE Spec2Model ----------------------------
(***************************************************************************)
(* A model of the bimap of src/bimap.h and of the intrusive treap          *)
(* (intrusive::set) of src/intrusive-set.h that backs each of its sides.   *)
(*                                                                         *)
(* The heap is explicit.  A pointer is an integer: Null, a pair object     *)
(* (node_t, one allocation with a left_t and a right_t facet) or the       *)
(* sentinel of a bimap object.  Every facet carries the three links of     *)
(* set_element_base and its priority y.  The side "l" is the left_tag      *)
(* facet, the side "r" the right_tag facet.                                *)
(***************************************************************************)
EXTENDS Integers, Sequences, FiniteSets, TLC

\* ------------------------------------------------------------------ bounds
\* Left values are 0..MaxLeft, Right values 0..MaxRight (Left() = Right() = 0).
MaxLeft == 2
MaxRight == 2
\* rand() draws a priority from 0..MaxPrio.
MaxPrio == 1
\* Pair objects that can be allocated at once.
MaxNodes == 6
\* With two bimap objects the values are 0..MaxLeft2 and 0..MaxRight2.
MaxLeft2 == 1
MaxRight2 == 1
\* With moves the size counter goes stale; insert is tried while it is below MaxSize.
MaxSize == 3

Lefts == 0..MaxLeft
Rights == 0..MaxRight
Prios == 0..MaxPrio
Nodes == 1..MaxNodes
Lefts2 == 0..MaxLeft2
Rights2 == 0..MaxRight2

\* nullptr
Null == 0
\* Left() and Right(), the value-initialised int
DefaultLeft == 0
DefaultRight == 0
\* The outcome of dereferencing nullptr or of a cast to the wrong type.
Wild == -9

\* The bimap objects: two named instances and the temporary of the assignments.
Bimaps == {"A", "B", "T"}
\* The address of the sentinel (the `root` element) of a bimap object.
Sentinel(b) == CASE b = "A" -> -1 [] b = "B" -> -2 [] OTHER -> -3
Sentinels == {Sentinel(b) : b \in Bimaps}
Ptrs == Nodes \cup Sentinels
Sides == {"l", "r"}
Other(s) == IF s = "l" THEN "r" ELSE "l"

VARIABLES
  link,    \* link[s][p] = [parent, left, right] of facet s of object p
  elem,    \* elem[s][n]: the value held by facet s of pair n
  y,       \* y[s][n]: the priority of facet s of pair n
  alloc,   \* the pair objects that are allocated
  size_,   \* size_[b]: the size counter of bimap b
  ub,      \* TRUE once the execution has run into undefined behaviour
  built,   \* the bimap objects that are constructed
  last,    \* the last operation: its name, object, arguments and result
  pre,     \* the entries and size counter of every bimap before that operation
  ref      \* the reference: a left->right map and a right->left map

vars == <<link, elem, y, alloc, size_, ub, built, last, pre, ref>>

\* set_element_base::unlink, and the links of a fresh set_element_base
Unlinked == [parent |-> Null, left |-> Null, right |-> Null]

\* The program state as one value, threaded through the operations.
St == [link |-> link, elem |-> elem, y |-> y, alloc |-> alloc, size_ |-> size_, ub |-> ub]

\* A local variable: F with its parameter holding the value v.  The statements
\* of a function body are nested the way they follow each other in the source.
Bind(v, F(_)) == F(v)

\* ---------------------------------------------------------- intrusive::set
get_value(st, s, tr) == st.elem[s][tr]

set_left(st, s, ptr, c) ==
  LET k == [st.link EXCEPT ![s][ptr].left = c]
  IN  [st EXCEPT !.link = IF c # Null THEN [k EXCEPT ![s][c].parent = ptr] ELSE k]

\* set_right that leaves the child's parent link as it was
set_right_keeps_parent(st, s, ptr, c) == [st EXCEPT !.link[s][ptr].right = c]

set_right(st, s, ptr, c) ==
  LET k == [st.link EXCEPT ![s][ptr].right = c]
  IN  [st EXCEPT !.link = IF c # Null THEN [k EXCEPT ![s][c].parent = ptr] ELSE k]

unlink(st, s, ptr) == [st EXCEPT !.link[s][ptr] = Unlinked]

\* split(tr, value, lower): <<first, second>>; with lower = FALSE the nodes
\* below value and those not below it, with lower = TRUE those not above value
\* and those above it.
RECURSIVE split(_, _, _, _, _)
split(st, s, tr, value, lower) ==
  IF tr = Null THEN [st |-> st, first |-> Null, second |-> Null]
  ELSE IF \/ ~lower /\ (value < get_value(st, s, tr) \/ value = get_value(st, s, tr))
          \/ lower /\ value < get_value(st, s, tr)
       THEN Bind(split(st, s, st.link[s][tr].left, value, lower), LAMBDA p :
              [st |-> set_left(p.st, s, tr, p.second), first |-> p.first, second |-> tr])
       ELSE Bind(split(st, s, st.link[s][tr].right, value, lower), LAMBDA p :
              [st |-> set_right(p.st, s, tr, p.first), first |-> tr, second |-> p.second])

RECURSIVE merge(_, _, _, _)
merge(st, s, lt, rt) ==
  IF lt = Null \/ rt = Null
  THEN [st |-> st, root |-> IF lt # Null THEN lt ELSE rt]
  ELSE IF st.y[s][lt] < st.y[s][rt]
       THEN Bind(merge(st, s, st.link[s][lt].right, rt), LAMBDA m :
              [st |-> set_right(m.st, s, lt, m.root), root |-> lt])
       ELSE Bind(merge(st, s, lt, st.link[s][rt].left), LAMBDA m :
              [st |-> set_left(m.st, s, rt, m.root), root |-> rt])

RECURSIVE get_min(_, _, _)
get_min(st, s, tr) ==
  IF tr = Null THEN Null
  ELSE IF st.link[s][tr].left # Null THEN get_min(st, s, st.link[s][tr].left) ELSE tr

RECURSIVE get_max(_, _, _)
get_max(st, s, tr) ==
  IF tr = Null THEN Null
  ELSE IF st.link[s][tr].right # Null THEN get_max(st, s, st.link[s][tr].right) ELSE tr

\* The loop of get_next: climb while ptr is the right child of its parent, then
\* step to the parent.  Reading through a null parent is undefined: Wild.
RECURSIVE next_climb(_, _, _, _)
next_climb(st, s, ptr, fuel) ==
  LET par == st.link[s][ptr].parent
  IN  IF par = Null \/ fuel = 0 THEN Wild
      ELSE IF st.link[s][par].right = ptr THEN next_climb(st, s, par, fuel - 1)
      ELSE par

get_next(st, s, ptr) ==
  IF ptr \notin Ptrs THEN Wild
  ELSE IF st.link[s][ptr].right # Null THEN get_min(st, s, st.link[s][ptr].right)
  ELSE next_climb(st, s, ptr, MaxNodes + 2)

RECURSIVE prev_climb(_, _, _, _)
prev_climb(st, s, ptr, fuel) ==
  LET par == st.link[s][ptr].parent
  IN  IF par = Null \/ fuel = 0 THEN Wild
      ELSE IF st.link[s][par].left = ptr THEN prev_climb(st, s, par, fuel - 1)
      ELSE par

\* get_prev that takes the left child itself for the predecessor
get_prev_no_descend(st, s, ptr) ==
  IF ptr \notin Ptrs THEN Wild
  ELSE IF st.link[s][ptr].left # Null THEN st.link[s][ptr].left
  ELSE prev_climb(st, s, ptr, MaxNodes + 2)

get_prev(st, s, ptr) ==
  IF ptr \notin Ptrs THEN Wild
  ELSE IF st.link[s][ptr].left # Null THEN get_max(st, s, st.link[s][ptr].left)
  ELSE prev_climb(st, s, ptr, MaxNodes + 2)

\* set::end of the set of side s of bimap b, and set::begin
set_end(b) == Sentinel(b)

set_begin(st, s, b) ==
  IF st.link[s][Sentinel(b)].left = Null THEN set_end(b)
  ELSE get_min(st, s, st.link[s][Sentinel(b)].left)

\* set::insert(value) of pair object n into side s of bimap b
set_insert(st, s, b, n) ==
  Bind(split(st, s, st.link[s][Sentinel(b)].left, get_value(st, s, n), FALSE), LAMBDA p :
  Bind(split(p.st, s, p.second, get_value(st, s, n), TRUE), LAMBDA p1 :
  Bind(IF p1.first = Null THEN n ELSE p1.first, LAMBDA tmp :
  Bind(merge(p1.st, s, tmp, p1.second), LAMBDA m1 :
  Bind(merge(m1.st, s, p.first, m1.root), LAMBDA m2 :
    [st |-> set_left(m2.st, s, Sentinel(b), m2.root), it |-> tmp])))))

\* set::erase that always relinks through the parent's left slot
set_erase_always_left(st, s, b, ptr) ==
  LET par == st.link[s][ptr].parent
  IN  IF ptr = Sentinel(b) THEN [st |-> st, it |-> set_end(b)]
      ELSE IF par = Null THEN [st |-> [st EXCEPT !.ub = TRUE], it |-> set_end(b)]
      ELSE Bind(merge(st, s, st.link[s][ptr].left, st.link[s][ptr].right), LAMBDA m :
             [st |-> unlink(set_left(m.st, s, par, m.root), s, ptr), it |-> set_end(b)])

\* set::erase(ptr); ptr->parent of an unlinked element is null, and reading
\* through it is undefined.
set_erase(st, s, b, ptr) ==
  LET par == st.link[s][ptr].parent
  IN  IF ptr = Sentinel(b) THEN [st |-> st, it |-> set_end(b)]
      ELSE IF par = Null THEN [st |-> [st EXCEPT !.ub = TRUE], it |-> set_end(b)]
      ELSE Bind(merge(st, s, st.link[s][ptr].left, st.link[s][ptr].right), LAMBDA m :
             [st |-> unlink(IF st.link[s][par].left = ptr
                            THEN set_left(m.st, s, par, m.root)
                            ELSE set_right(m.st, s, par, m.root), s, ptr),
              it |-> set_end(b)])

\* lower_bound that puts only the first half of the split back under the root
set_lower_bound_drops_second(st, s, b, value) ==
  Bind(split(st, s, st.link[s][Sentinel(b)].left, value, FALSE), LAMBDA p :
  Bind(get_min(p.st, s, p.second), LAMBDA m :
    [st |-> set_left(p.st, s, Sentinel(b), p.first),
     it |-> IF m = Null THEN set_end(b) ELSE m]))

\* set::lower_bound(value)
set_lower_bound(st, s, b, value) ==
  Bind(split(st, s, st.link[s][Sentinel(b)].left, value, FALSE), LAMBDA p :
  Bind(get_min(p.st, s, p.second), LAMBDA m :
  Bind(merge(p.st, s, p.first, p.second), LAMBDA mm :
    [st |-> set_left(mm.st, s, Sentinel(b), mm.root),
     it |-> IF m = Null THEN set_end(b) ELSE m])))

\* find that takes the first element not less than value for a match
set_find_not_less(st, s, b, value) == set_lower_bound(st, s, b, value)

\* set::find(value)
set_find(st, s, b, value) ==
  Bind(set_lower_bound(st, s, b, value), LAMBDA lb :
    IF lb.it # set_end(b) /\ get_value(lb.st, s, lb.it) = value
    THEN lb
    ELSE [st |-> lb.st, it |-> set_end(b)])

\* upper_bound that does not step past an equal element
set_upper_bound_no_step(st, s, b, value) == set_lower_bound(st, s, b, value)

\* set::upper_bound(value)
set_upper_bound(st, s, b, value) ==
  Bind(set_lower_bound(st, s, b, value), LAMBDA lb :
    IF lb.it # set_end(b) /\ get_value(lb.st, s, lb.it) = value
    THEN [st |-> lb.st, it |-> get_next(lb.st, s, lb.it)]
    ELSE lb)

\* swap that exchanges the two root.left pointers and leaves the parent links
set_swap_roots_only(st, s, a, b) ==
  [st EXCEPT !.link[s] = [@ EXCEPT ![Sentinel(a)].left = st.link[s][Sentinel(b)].left,
                                   ![Sentinel(b)].left = st.link[s][Sentinel(a)].left]]

\* set::swap(other)
set_swap(st, s, a, b) ==
  LET ptr == st.link[s][Sentinel(a)].left
  IN  set_left(set_left(st, s, Sentinel(a), st.link[s][Sentinel(b)].left),
               s, Sentinel(b), ptr)


\* ------------------------------------------------------------------ bimap
end_left(b) == set_end(b)
end_right(b) == set_end(b)
begin_left(st, b) == set_begin(st, "l", b)
begin_right(st, b) == set_begin(st, "r", b)

\* set_element_base::has_parent, which flip calls
has_parent(st, s, it) == st.link[s][it].parent # Null

\* flip that always casts to root_pair
flip_as_root_pair(st, s, it) ==
  IF it \notin Ptrs THEN Wild ELSE IF it \in Sentinels THEN it ELSE Wild

\* flip that always casts to node_t
flip_as_node(st, s, it) ==
  IF it \notin Ptrs THEN Wild ELSE IF it \in Nodes THEN it ELSE Wild

\* bimap_iterator::flip of a position `it` of side s: the other facet of the same
\* pair object, or the other facet of the root_pair for a position without parent.
flip(st, s, it) ==
  IF it \notin Ptrs THEN Wild
  ELSE IF has_parent(st, s, it)
       THEN (IF it \in Nodes THEN it ELSE Wild)
       ELSE (IF it \in Sentinels THEN it ELSE Wild)

\* operator* of a position of side s
deref(st, s, it) == IF it \in st.alloc THEN st.elem[s][it] ELSE Wild

find_left(st, b, left) == set_find(st, "l", b, left)
find_right(st, b, right) == set_find(st, "r", b, right)

\* new pair(left, right): the lowest free address; the two facets draw their
\* priorities yl and yr from rand().
new_pair(st, n, left, right, yl, yr) ==
  [st EXCEPT !.alloc = @ \cup {n},
             !.elem = [@ EXCEPT !["l"][n] = left, !["r"][n] = right],
             !.y = [@ EXCEPT !["l"][n] = yl, !["r"][n] = yr],
             !.link = [@ EXCEPT !["l"][n] = Unlinked, !["r"][n] = Unlinked]]

\* delete of a pair object: both facets unlink, the storage is released.
delete_pair(st, n) ==
  [st EXCEPT !.alloc = @ \ {n},
             !.elem = [@ EXCEPT !["l"][n] = 0, !["r"][n] = 0],
             !.y = [@ EXCEPT !["l"][n] = 0, !["r"][n] = 0],
             !.link = [@ EXCEPT !["l"][n] = Unlinked, !["r"][n] = Unlinked]]

FreeNode(st) == CHOOSE n \in Nodes \ st.alloc : \A m \in Nodes \ st.alloc : n <= m

\* The tail of insert: the new pair n goes into the left index, then into the
\* right one, and size_ grows.
link_pair(st, b, n) ==
  Bind(set_insert(st, "l", b, n), LAMBDA i1 :
    [st |-> [set_insert(i1.st, "r", b, n).st EXCEPT !.size_[b] = @ + 1],
     it |-> i1.it, ok |-> TRUE])

\* insert that looks only the left value up
insert_no_right_check(st, b, left, right, yl, yr) ==
  Bind(find_left(st, b, left), LAMBDA fl :
    IF fl.it # end_left(b) THEN [st |-> fl.st, it |-> end_left(b), ok |-> TRUE]
    ELSE IF Nodes \ fl.st.alloc = {} THEN [st |-> fl.st, it |-> end_left(b), ok |-> FALSE]
    ELSE link_pair(new_pair(fl.st, FreeNode(fl.st), left, right, yl, yr), b, FreeNode(fl.st)))

\* insert that links the left facet before it looks the right value up
insert_left_first(st, b, left, right, yl, yr) ==
  Bind(find_left(st, b, left), LAMBDA fl :
    IF fl.it # end_left(b) THEN [st |-> fl.st, it |-> end_left(b), ok |-> TRUE]
    ELSE IF Nodes \ fl.st.alloc = {} THEN [st |-> fl.st, it |-> end_left(b), ok |-> FALSE]
    ELSE Bind(FreeNode(fl.st), LAMBDA n :
         Bind(set_insert(new_pair(fl.st, n, left, right, yl, yr), "l", b, n), LAMBDA i1 :
         Bind(find_right(i1.st, b, right), LAMBDA fr :
           IF fr.it # end_right(b) THEN [st |-> fr.st, it |-> end_left(b), ok |-> TRUE]
           ELSE [st |-> [set_insert(fr.st, "r", b, n).st EXCEPT !.size_[b] = @ + 1],
                 it |-> i1.it, ok |-> TRUE]))))

\* insert that forgets size_++
insert_keeps_size(st, b, left, right, yl, yr) ==
  Bind(find_left(st, b, left), LAMBDA fl :
    IF fl.it # end_left(b) THEN [st |-> fl.st, it |-> end_left(b), ok |-> TRUE]
    ELSE Bind(find_right(fl.st, b, right), LAMBDA fr :
      IF fr.it # end_right(b) THEN [st |-> fr.st, it |-> end_left(b), ok |-> TRUE]
      ELSE IF Nodes \ fr.st.alloc = {} THEN [st |-> fr.st, it |-> end_left(b), ok |-> FALSE]
      ELSE Bind(FreeNode(fr.st), LAMBDA n :
           Bind(set_insert(new_pair(fr.st, n, left, right, yl, yr), "l", b, n), LAMBDA i1 :
             [st |-> set_insert(i1.st, "r", b, n).st, it |-> i1.it, ok |-> TRUE]))))

\* bimap::insert(left, right); ok is FALSE when no storage is left for the pair.
insert(st, b, left, right, yl, yr) ==
  Bind(find_left(st, b, left), LAMBDA fl :
    IF fl.it # end_left(b) THEN [st |-> fl.st, it |-> end_left(b), ok |-> TRUE]
    ELSE Bind(find_right(fl.st, b, right), LAMBDA fr :
      IF fr.it # end_right(b) THEN [st |-> fr.st, it |-> end_left(b), ok |-> TRUE]
      ELSE IF Nodes \ fr.st.alloc = {} THEN [st |-> fr.st, it |-> end_left(b), ok |-> FALSE]
      ELSE link_pair(new_pair(fr.st, FreeNode(fr.st), left, right, yl, yr), b, FreeNode(fr.st))))

\* erase_range that, like the destructor, erases from the left index only
RECURSIVE erase_range_left_index_only(_, _, _, _, _, _)
erase_range_left_index_only(st, s, b, it, lst, fuel) ==
  IF it = lst THEN st
  ELSE IF it \notin st.alloc \/ fuel = 0 THEN [st EXCEPT !.ub = TRUE]
  ELSE erase_range_left_index_only(
         [delete_pair(set_erase(st, "l", b, it).st, it) EXCEPT !.size_[b] = @ - 1],
         s, b, get_next(st, s, it), lst, fuel - 1)

\* bimap::erase_range over positions of side s.  A position that is no pair
\* object cannot be cast to node_t: undefined behaviour.
RECURSIVE erase_range_loop(_, _, _, _, _, _)
erase_range_loop(st, s, b, it, lst, fuel) ==
  IF it = lst THEN st
  ELSE IF it \notin st.alloc \/ fuel = 0 THEN [st EXCEPT !.ub = TRUE]
  ELSE erase_range_loop(
         [delete_pair(set_erase(set_erase(st, "l", b, it).st, "r", b, it).st, it)
            EXCEPT !.size_[b] = @ - 1],
         s, b, get_next(st, s, it), lst, fuel - 1)

\* erase_range that returns the position it started from
erase_range_returns_first(st, s, b, first, lst) ==
  [st |-> erase_range_loop(st, s, b, first, lst, MaxNodes + 1), it |-> first]

erase_range(st, s, b, first, lst) ==
  [st |-> erase_range_loop(st, s, b, first, lst, MaxNodes + 1), it |-> lst]

\* erase_left(first, last), erase_right(first, last)
erase_left_range(st, b, first, lst) == erase_range(st, "l", b, first, lst)
erase_right_range(st, b, first, lst) == erase_range(st, "r", b, first, lst)

\* erase_left(it), erase_right(it)
erase_left_it(st, b, it) == erase_left_range(st, b, it, get_next(st, "l", it))
erase_right_it(st, b, it) == erase_right_range(st, b, it, get_next(st, "r", it))

\* erase_left(value) that reports true whether or not it found the value
erase_left_always_found(st, b, left) ==
  Bind(find_left(st, b, left), LAMBDA f :
    IF f.it # end_left(b)
    THEN [st |-> erase_left_it(f.st, b, f.it).st, found |-> TRUE]
    ELSE [st |-> f.st, found |-> TRUE])

\* erase_left(value), erase_right(value): found is the boolean returned
erase_left(st, b, left) ==
  Bind(find_left(st, b, left), LAMBDA f :
    IF f.it # end_left(b)
    THEN [st |-> erase_left_it(f.st, b, f.it).st, found |-> TRUE]
    ELSE [st |-> f.st, found |-> FALSE])

erase_right(st, b, right) ==
  Bind(find_right(st, b, right), LAMBDA f :
    IF f.it # end_right(b)
    THEN [st |-> erase_right_it(f.st, b, f.it).st, found |-> TRUE]
    ELSE [st |-> f.st, found |-> FALSE])

\* at_left that dereferences the position found instead of its flip
at_left_no_flip(st, b, key) ==
  Bind(find_left(st, b, key), LAMBDA f :
    IF f.it = end_left(b)
    THEN [st |-> f.st, thrown |-> TRUE, val |-> Wild]
    ELSE [st |-> f.st, thrown |-> FALSE, val |-> deref(f.st, "l", f.it)])

\* at_left(key), at_right(key): thrown is TRUE for std::out_of_range
at_left(st, b, key) ==
  Bind(find_left(st, b, key), LAMBDA f :
    IF f.it = end_left(b)
    THEN [st |-> f.st, thrown |-> TRUE, val |-> Wild]
    ELSE [st |-> f.st, thrown |-> FALSE, val |-> deref(f.st, "r", flip(f.st, "l", f.it))])

at_right(st, b, key) ==
  Bind(find_right(st, b, key), LAMBDA f :
    IF f.it = end_right(b)
    THEN [st |-> f.st, thrown |-> TRUE, val |-> Wild]
    ELSE [st |-> f.st, thrown |-> FALSE, val |-> deref(f.st, "l", flip(f.st, "r", f.it))])

\* at_left_or_default that does not erase the holder of Right()
at_left_or_default_no_evict(st, b, key, yl, yr) ==
  Bind(find_left(st, b, key), LAMBDA f :
    IF f.it # end_left(b)
    THEN [st |-> f.st, ref |-> flip(f.st, "l", f.it),
          val |-> deref(f.st, "r", flip(f.st, "l", f.it)), ok |-> TRUE]
    ELSE Bind(insert(f.st, b, key, DefaultRight, yl, yr), LAMBDA i :
           [st |-> i.st, ref |-> flip(i.st, "l", i.it),
            val |-> deref(i.st, "r", flip(i.st, "l", i.it)), ok |-> i.ok]))

\* at_left_or_default(key): ref is the position whose value the returned
\* reference denotes, val the value read through it.
at_left_or_default(st, b, key, yl, yr) ==
  Bind(find_left(st, b, key), LAMBDA f :
    IF f.it # end_left(b)
    THEN [st |-> f.st, ref |-> flip(f.st, "l", f.it),
          val |-> deref(f.st, "r", flip(f.st, "l", f.it)), ok |-> TRUE]
    ELSE Bind(insert(erase_right(f.st, b, DefaultRight).st, b, key, DefaultRight, yl, yr),
              LAMBDA i :
           [st |-> i.st, ref |-> flip(i.st, "l", i.it),
            val |-> deref(i.st, "r", flip(i.st, "l", i.it)), ok |-> i.ok]))

at_right_or_default(st, b, key, yl, yr) ==
  Bind(find_right(st, b, key), LAMBDA f :
    IF f.it # end_right(b)
    THEN [st |-> f.st, ref |-> flip(f.st, "r", f.it),
          val |-> deref(f.st, "l", flip(f.st, "r", f.it)), ok |-> TRUE]
    ELSE Bind(insert(erase_left(f.st, b, DefaultLeft).st, b, DefaultLeft, key, yl, yr),
              LAMBDA i :
           [st |-> i.st, ref |-> i.it, val |-> deref(i.st, "l", i.it), ok |-> i.ok]))

lower_bound_left(st, b, left) == set_lower_bound(st, "l", b, left)
upper_bound_left(st, b, left) == set_upper_bound(st, "l", b, left)
lower_bound_right(st, b, right) == set_lower_bound(st, "r", b, right)
upper_bound_right(st, b, right) == set_upper_bound(st, "r", b, right)

size(st, b) == st.size_[b]
empty(st, b) == st.size_[b] = 0


\* --------------------------------------------- copies, moves, destruction
\* A set_element_base as its constructor leaves it: the sentinel of a new object.
fresh(st, b) ==
  [st EXCEPT !.link = [@ EXCEPT !["l"][Sentinel(b)] = Unlinked,
                                !["r"][Sentinel(b)] = Unlinked],
             !.size_[b] = 0]

\* operator==(a, b): val is the result; reading the value at a position that is
\* no pair object is undefined.
RECURSIVE eq_loop(_, _, _, _, _, _)
eq_loop(st, a, b, a_it, b_it, fuel) ==
  IF a_it = end_left(a) THEN [val |-> TRUE, ub |-> FALSE]
  ELSE IF a_it \notin st.alloc \/ b_it \notin st.alloc \/ fuel = 0
       THEN [val |-> FALSE, ub |-> TRUE]
  ELSE IF \/ deref(st, "l", a_it) # deref(st, "l", b_it)
          \/ deref(st, "r", flip(st, "l", a_it)) # deref(st, "r", flip(st, "l", b_it))
       THEN [val |-> FALSE, ub |-> FALSE]
  ELSE eq_loop(st, a, b, get_next(st, "l", a_it), get_next(st, "l", b_it), fuel - 1)

\* operator== that compares the left values only
RECURSIVE eq_loop_left_only(_, _, _, _, _, _)
eq_loop_left_only(st, a, b, a_it, b_it, fuel) ==
  IF a_it = end_left(a) THEN [val |-> TRUE, ub |-> FALSE]
  ELSE IF a_it \notin st.alloc \/ b_it \notin st.alloc \/ fuel = 0
       THEN [val |-> FALSE, ub |-> TRUE]
  ELSE IF deref(st, "l", a_it) # deref(st, "l", b_it) THEN [val |-> FALSE, ub |-> FALSE]
  ELSE eq_loop_left_only(st, a, b, get_next(st, "l", a_it), get_next(st, "l", b_it), fuel - 1)

equal_left_only(st, a, b) ==
  IF size(st, a) # size(st, b) THEN [val |-> FALSE, ub |-> FALSE]
  ELSE eq_loop_left_only(st, a, b, begin_left(st, a), begin_left(st, b), MaxNodes + 1)

equal(st, a, b) ==
  IF size(st, a) # size(st, b) THEN [val |-> FALSE, ub |-> FALSE]
  ELSE eq_loop(st, a, b, begin_left(st, a), begin_left(st, b), MaxNodes + 1)

\* operator!=(a, b)
not_equal(st, a, b) ==
  Bind(equal(st, a, b), LAMBDA e : [val |-> ~e.val, ub |-> e.ub])

\* bimap(bimap const& other): dst is built empty and receives the pairs of src in
\* left order; ys[i] are the two priorities the i-th insert draws.
RECURSIVE copy_loop(_, _, _, _, _, _)
copy_loop(st, dst, src, it, ys, i) ==
  IF it = end_left(src) THEN [st |-> st, ok |-> TRUE]
  ELSE IF it \notin st.alloc \/ i > Len(ys) THEN [st |-> [st EXCEPT !.ub = TRUE], ok |-> TRUE]
  ELSE Bind(insert(st, dst, deref(st, "l", it), deref(st, "r", flip(st, "l", it)),
                   ys[i][1], ys[i][2]), LAMBDA r :
         IF ~r.ok THEN [st |-> r.st, ok |-> FALSE]
         ELSE copy_loop(r.st, dst, src, get_next(r.st, "l", it), ys, i + 1))

\* Copy construction that takes over the trees of src instead of copying the pairs
copy_construct_shallow(st, dst, src, ys) ==
  [st |-> [st EXCEPT !.link = [@ EXCEPT !["l"][Sentinel(dst)] = st.link["l"][Sentinel(src)],
                                        !["r"][Sentinel(dst)] = st.link["r"][Sentinel(src)]],
                     !.size_[dst] = st.size_[src]],
   ok |-> TRUE]

copy_construct(st, dst, src, ys) ==
  copy_loop(fresh(st, dst), dst, src, begin_left(st, src), ys, 1)

\* bimap::swap(other)
swap(st, a, b) ==
  [set_swap(set_swap(st, "l", a, b), "r", a, b)
     EXCEPT !.size_ = [@ EXCEPT ![a] = st.size_[b], ![b] = st.size_[a]]]

\* ~bimap: every pair is erased from the left index and deleted; then the
\* members, the sentinel among them, are gone.
RECURSIVE destroy_loop(_, _, _, _)
destroy_loop(st, b, it, fuel) ==
  IF it = end_left(b) THEN st
  ELSE IF it \notin st.alloc \/ fuel = 0 THEN [st EXCEPT !.ub = TRUE]
  ELSE destroy_loop(
         [delete_pair(set_erase(st, "l", b, it).st, it) EXCEPT !.size_[b] = @ - 1],
         b, get_next(st, "l", it), fuel - 1)

destroy(st, b) ==
  Bind(destroy_loop(st, b, begin_left(st, b), MaxNodes + 1), LAMBDA d :
    IF d.ub THEN d ELSE fresh(d, b))

\* bimap::operator=(bimap const& other), with the temporary T
copy_assign(st, a, b, ys) ==
  Bind(equal(st, a, b), LAMBDA e :
    IF e.ub THEN [st |-> [st EXCEPT !.ub = TRUE], ok |-> TRUE]
    ELSE IF e.val THEN [st |-> st, ok |-> TRUE]
    ELSE Bind(copy_construct(st, "T", b, ys), LAMBDA tmp :
           IF ~tmp.ok \/ tmp.st.ub THEN tmp
           ELSE [st |-> destroy(swap(tmp.st, a, "T"), "T"), ok |-> TRUE]))

\* set_element_base(set_element_base&&) of the sentinel of side s: the links of
\* src move to dst, src is unlinked; no parent link is touched.
move_root(st, s, dst, src) ==
  [st EXCEPT !.link[s] = [@ EXCEPT ![Sentinel(dst)] = st.link[s][Sentinel(src)],
                                   ![Sentinel(src)] = Unlinked]]

\* bimap(bimap&& other) = default: l, r and size_ are moved member by member.
move_construct(st, dst, src) ==
  [move_root(move_root(st, "l", dst, src), "r", dst, src)
     EXCEPT !.size_[dst] = st.size_[src]]

\* bimap::operator=(bimap&& other), with the temporary T
move_assign(st, a, b) ==
  Bind(equal(st, a, b), LAMBDA e :
    IF e.ub THEN [st EXCEPT !.ub = TRUE]
    ELSE IF e.val THEN st
    ELSE destroy(swap(move_construct(st, "T", b), "T", a), "T"))

\* ------------------------------------------------------------ observation
Range(f) == {f[i] : i \in DOMAIN f}

\* The nodes of the subtree at tr, in order, by the child links alone.
RECURSIVE Walk(_, _, _, _)
Walk(st, s, tr, fuel) ==
  IF tr = Null \/ fuel = 0 THEN <<>>
  ELSE Walk(st, s, st.link[s][tr].left, fuel - 1) \o <<tr>>
         \o Walk(st, s, st.link[s][tr].right, fuel - 1)

Index(st, s, b) == Walk(st, s, st.link[s][Sentinel(b)].left, MaxNodes + 1)

\* The positions met by stepping with ++ from begin until end; it stops early at
\* a position that is no pair object.
RECURSIVE IterFrom(_, _, _, _, _)
IterFrom(st, s, b, it, fuel) ==
  IF it = set_end(b) \/ it \notin Nodes \/ fuel = 0 THEN <<>>
  ELSE <<it>> \o IterFrom(st, s, b, get_next(st, s, it), fuel - 1)

Iter(st, s, b) == IterFrom(st, s, b, set_begin(st, s, b), MaxNodes + 1)

\* The position that stops the stepping: end exactly when the iteration is sound.
RECURSIVE IterStop(_, _, _, _, _)
IterStop(st, s, b, it, fuel) ==
  IF it = set_end(b) \/ it \notin Nodes \/ fuel = 0 THEN it
  ELSE IterStop(st, s, b, get_next(st, s, it), fuel - 1)

\* The pair objects of bimap b with their values, read off the side s.
Entries(st, s, b) ==
  {<<n, st.elem["l"][n], st.elem["r"][n]>> : n \in Range(Index(st, s, b))}

\* The (left, right) associations of bimap b.
Pairs(st, b) == {<<e[2], e[3]>> : e \in Entries(st, "l", b)}

Snapshot(st) == [ents |-> [b \in Bimaps |-> Entries(st, "l", b)],
                 size |-> [b \in Bimaps |-> st.size_[b]]]

\* ------------------------------------------------------ address renaming
\* The program compares addresses of pair objects only for equality, so two
\* heaps that differ by a renaming of the pair objects are one program state.
\* A state is kept under the renaming that numbers the pair objects of A in left
\* order, then those of B, then the remaining ones.
RECURSIVE Dedup(_, _)
Dedup(seq, seen) ==
  IF seq = <<>> THEN <<>>
  ELSE IF Head(seq) \in seen THEN Dedup(Tail(seq), seen)
  ELSE <<Head(seq)>> \o Dedup(Tail(seq), seen \cup {Head(seq)})

RECURSIVE Sorted(_)
Sorted(S) ==
  IF S = {} THEN <<>>
  ELSE LET m == CHOOSE x \in S : \A z \in S : x <= z
       IN  <<m>> \o Sorted(S \ {m})

Order(st) ==
  Bind(Dedup(SelectSeq(Index(st, "l", "A") \o Index(st, "l", "B"),
                       LAMBDA n : n \in st.alloc), {}), LAMBDA reach :
    reach \o Sorted(st.alloc \ Range(reach)) \o Sorted(Nodes \ st.alloc))

\* to[n]: the new address of pair object n; from[k]: the object renamed to k.
Renaming(st) ==
  Bind(Order(st), LAMBDA from :
    [from |-> from,
     to |-> [n \in Nodes |-> CHOOSE k \in 1..Len(from) : from[k] = n]])

RenamePtr(rn, ptr) == IF ptr \in Nodes THEN rn.to[ptr] ELSE ptr

Rename(rn, st) ==
  [st EXCEPT
     !.link = [s \in Sides |-> [q \in Ptrs |->
                 LET k == st.link[s][IF q \in Nodes THEN rn.from[q] ELSE q]
                 IN  [parent |-> RenamePtr(rn, k.parent), left |-> RenamePtr(rn, k.left),
                      right |-> RenamePtr(rn, k.right)]]],
     !.elem = [s \in Sides |-> [n \in Nodes |-> st.elem[s][rn.from[n]]]],
     !.y = [s \in Sides |-> [n \in Nodes |-> st.y[s][rn.from[n]]]],
     !.alloc = {rn.to[n] : n \in st.alloc}]

\* ------------------------------------------------------------------ actions
Objs == {"A", "B"}
\* The operations whose argument a1 is another bimap object (its address).
TwoObjectOps == {"copy_construct", "copy_assign", "swap", "move_construct", "move_assign",
                 "equal", "not_equal"}

\* One action per public operation; every operation runs to completion.
Install(st) ==
  /\ link' = st.link
  /\ elem' = st.elem
  /\ y' = st.y
  /\ alloc' = st.alloc
  /\ size_' = st.size_
  /\ ub' = st.ub

Bool(x) == IF x THEN 1 ELSE 0

\* An operation `op` on bimap b with arguments a1, a2 that ended in state st,
\* returning the position `it` and the value `val`.
\* The operation is either recorded in last and pre, and the run ends there with
\* its effect on display, or it is not recorded and the run goes on.
NoOp == [op |-> "none", b |-> "A", a1 |-> 0, a2 |-> 0, p1 |-> Null, p2 |-> Null,
         it |-> Null, val |-> 0, ref |-> 0]
NoPre == [ents |-> [b \in Bimaps |-> {}], size |-> [b \in Bimaps |-> 0]]

\* An index of b that reaches a pair object already deleted: whatever reads the
\* index next reads released storage, which is undefined.
Dangling(st, b) ==
  \E s \in Sides : \E n \in Range(Index(st, s, b)) : n \notin st.alloc

\* The outcome st of an operation that reads the objects in `used`.
Outcome(used, st) ==
  IF \E b \in used : Dangling(St, b) THEN [St EXCEPT !.ub = TRUE] ELSE st

\* a1, a2 are the values passed, p1, p2 the positions passed, `it` and val the
\* position and the value returned, refval what the reference returned.
Record(op, b, a1, a2, p1, p2, it, val, refval, st0) ==
  \E st \in {Outcome({b} \cup {o \in Objs : a1 = Sentinel(o) /\ op \in TwoObjectOps}, st0)} :
  \E rn \in {Renaming(st)} :
  \E snap \in {Snapshot(St)} :
    /\ Install(Rename(rn, st))
    /\ \E rec \in BOOLEAN :
         /\ last' = IF rec THEN [op |-> op, b |-> b, a1 |-> a1, a2 |-> a2,
                                 p1 |-> RenamePtr(rn, p1), p2 |-> RenamePtr(rn, p2),
                                 it |-> RenamePtr(rn, it), val |-> val, ref |-> refval]
                          ELSE NoOp
         /\ pre' = IF rec THEN [snap EXCEPT !.ents = [o \in Bimaps |->
                                 {<<rn.to[e[1]], e[2], e[3]>> : e \in snap.ents[o]}]]
                         ELSE NoPre

\* An operation on values, and an operation on positions.
Done(op, b, a1, a2, it, val, st) ==
  /\ Record(op, b, a1, a2, Null, Null, it, val, 0, st)
  /\ UNCHANGED <<built, ref>>

DonePos(op, b, p1, p2, it, st) ==
  /\ Record(op, b, 0, 0, p1, p2, it, 0, 0, st)
  /\ UNCHANGED <<built, ref>>

Ready(b) == b \in built /\ ~ub /\ last.op = "none"

TypeOK ==
  /\ alloc \subseteq Nodes
  /\ ub \in BOOLEAN
  /\ built \subseteq Bimaps

Init ==
  /\ link = [s \in Sides |-> [p \in Ptrs |-> Unlinked]]
  /\ elem = [s \in Sides |-> [n \in Nodes |-> 0]]
  /\ y = [s \in Sides |-> [n \in Nodes |-> 0]]
  /\ alloc = {}
  /\ size_ = [b \in Bimaps |-> 0]
  /\ ub = FALSE
  /\ built = {"A"}
  /\ last = NoOp
  /\ pre = NoPre
  /\ ref = [lr |-> {}, rl |-> {}]

Insert(b, LS, RS) ==
  /\ Ready(b)
  /\ \E left \in LS, right \in RS, yl \in Prios, yr \in Prios :
       \E r \in {insert(St, b, left, right, yl, yr)} :
         r.ok /\ Done("insert", b, left, right, r.it, deref(r.st, "l", r.it), r.st)

EraseLeft(b, LS) ==
  /\ Ready(b)
  /\ \E left \in LS :
       \E r \in {erase_left(St, b, left)} :
         Done("erase_left", b, left, 0, Null, Bool(r.found), r.st)

EraseRight(b, RS) ==
  /\ Ready(b)
  /\ \E right \in RS :
       \E r \in {erase_right(St, b, right)} :
         Done("erase_right", b, right, 0, Null, Bool(r.found), r.st)

\* erase_left(it), erase_right(it) of a valid position that is not end
EraseLeftIt(b) ==
  /\ Ready(b)
  /\ \E it \in Range(Iter(St, "l", b)) :
       \E r \in {erase_left_it(St, b, it)} :
         DonePos("erase_left_it", b, it, Null, r.it, r.st)

EraseRightIt(b) ==
  /\ Ready(b)
  /\ \E it \in Range(Iter(St, "r", b)) :
       \E r \in {erase_right_it(St, b, it)} :
         DonePos("erase_right_it", b, it, Null, r.it, r.st)

\* erase_left(first, last), erase_right(first, last) over a valid range: first is
\* not after last.
EraseLeftRange(b) ==
  /\ Ready(b)
  /\ \E seq \in {Iter(St, "l", b) \o <<end_left(b)>>} :
       \E i \in 1..Len(seq) : \E j \in i..Len(seq) :
           \E r \in {erase_left_range(St, b, seq[i], seq[j])} :
             DonePos("erase_left_range", b, seq[i], seq[j], r.it, r.st)

EraseRightRange(b) ==
  /\ Ready(b)
  /\ \E seq \in {Iter(St, "r", b) \o <<end_right(b)>>} :
       \E i \in 1..Len(seq) : \E j \in i..Len(seq) :
           \E r \in {erase_right_range(St, b, seq[i], seq[j])} :
             DonePos("erase_right_range", b, seq[i], seq[j], r.it, r.st)

FindLeft(b) ==
  /\ Ready(b)
  /\ \E v \in Lefts :
       \E r \in {find_left(St, b, v)} : Done("find_left", b, v, 0, r.it, 0, r.st)

FindRight(b) ==
  /\ Ready(b)
  /\ \E v \in Rights :
       \E r \in {find_right(St, b, v)} : Done("find_right", b, v, 0, r.it, 0, r.st)

LowerBoundLeft(b) ==
  /\ Ready(b)
  /\ \E v \in Lefts :
       \E r \in {lower_bound_left(St, b, v)} : Done("lower_bound_left", b, v, 0, r.it, 0, r.st)

LowerBoundRight(b) ==
  /\ Ready(b)
  /\ \E v \in Rights :
       \E r \in {lower_bound_right(St, b, v)} : Done("lower_bound_right", b, v, 0, r.it, 0, r.st)

UpperBoundLeft(b) ==
  /\ Ready(b)
  /\ \E v \in Lefts :
       \E r \in {upper_bound_left(St, b, v)} : Done("upper_bound_left", b, v, 0, r.it, 0, r.st)

UpperBoundRight(b) ==
  /\ Ready(b)
  /\ \E v \in Rights :
       \E r \in {upper_bound_right(St, b, v)} : Done("upper_bound_right", b, v, 0, r.it, 0, r.st)

\* at_left, at_right: val is the value returned, `it` is end when it threw
AtLeft(b) ==
  /\ Ready(b)
  /\ \E k \in Lefts :
       \E r \in {at_left(St, b, k)} :
         Done("at_left", b, k, Bool(r.thrown), Null, r.val, r.st)

AtRight(b) ==
  /\ Ready(b)
  /\ \E k \in Rights :
       \E r \in {at_right(St, b, k)} :
         Done("at_right", b, k, Bool(r.thrown), Null, r.val, r.st)

AtLeftOrDefault(b, LS) ==
  /\ Ready(b)
  /\ \E k \in LS, yl \in Prios, yr \in Prios :
       \E r \in {at_left_or_default(St, b, k, yl, yr)} :
         r.ok /\ Done("at_left_or_default", b, k, 0, r.ref, r.val, r.st)

AtRightOrDefault(b, RS) ==
  /\ Ready(b)
  /\ \E k \in RS, yl \in Prios, yr \in Prios :
       \E r \in {at_right_or_default(St, b, k, yl, yr)} :
         r.ok /\ Done("at_right_or_default", b, k, 0, r.ref, r.val, r.st)

\* The operations of one bimap object.
Next ==
  \/ Insert("A", Lefts, Rights)
  \/ EraseLeft("A", Lefts)
  \/ EraseRight("A", Rights)
  \/ EraseLeftIt("A")
  \/ EraseRightIt("A")
  \/ EraseLeftRange("A")
  \/ EraseRightRange("A")
  \/ FindLeft("A")
  \/ FindRight("A")
  \/ LowerBoundLeft("A")
  \/ LowerBoundRight("A")
  \/ UpperBoundLeft("A")
  \/ UpperBoundRight("A")
  \/ AtLeft("A")
  \/ AtRight("A")
  \/ AtLeftOrDefault("A", Lefts)
  \/ AtRightOrDefault("A", Rights)

Spec == Init /\ [][Next]_vars


\* ---------------------------------------------------- two bimap objects
\* A is always there; B is constructed (empty, as a copy of A or from A moved)
\* and destroyed.

\* The priorities that n successive inserts draw.
PrioSeqs(n) == [1..n -> Prios \X Prios]

DefaultConstruct ==
  /\ "B" \notin built /\ ~ub /\ last.op = "none"
  /\ Record("construct", "B", 0, 0, Null, Null, Null, 0, 0, fresh(St, "B"))
  /\ built' = built \cup {"B"}
  /\ UNCHANGED ref

CopyConstruct ==
  /\ "B" \notin built /\ ~ub /\ last.op = "none"
  /\ \E ys \in PrioSeqs(Len(Iter(St, "l", "A"))) :
       \E r \in {copy_construct(St, "B", "A", ys)} :
         r.ok /\ Record("copy_construct", "B", Sentinel("A"), 0, Null, Null, Null, 0, 0, r.st)
  /\ built' = built \cup {"B"}
  /\ UNCHANGED ref

CopyAssign ==
  /\ \E a \in Objs, b \in Objs :
       /\ Ready(a) /\ Ready(b)
       /\ \E ys \in PrioSeqs(Len(Iter(St, "l", b))) :
            \E r \in {copy_assign(St, a, b, ys)} :
              r.ok /\ Record("copy_assign", a, Sentinel(b), 0, Null, Null, Null, 0, 0, r.st)
  /\ UNCHANGED <<built, ref>>

Swap ==
  /\ \E a \in Objs, b \in Objs :
       /\ Ready(a) /\ Ready(b)
       /\ Record("swap", a, Sentinel(b), 0, Null, Null, Null, 0, 0, swap(St, a, b))
  /\ UNCHANGED <<built, ref>>

Destroy ==
  /\ Ready("B")
  /\ Record("destroy", "B", 0, 0, Null, Null, Null, 0, 0, destroy(St, "B"))
  /\ built' = built \ {"B"}
  /\ UNCHANGED ref

MoveConstruct ==
  /\ "B" \notin built /\ ~ub /\ last.op = "none"
  /\ Record("move_construct", "B", Sentinel("A"), 0, Null, Null, Null, 0, 0, move_construct(St, "B", "A"))
  /\ built' = built \cup {"B"}
  /\ UNCHANGED ref

MoveAssign ==
  /\ \E a \in Objs, b \in Objs :
       /\ Ready(a) /\ Ready(b)
       /\ Record("move_assign", a, Sentinel(b), 0, Null, Null, Null, 0, 0, move_assign(St, a, b))
  /\ UNCHANGED <<built, ref>>

\* operator== and operator!= of two constructed objects
Equal ==
  /\ \E a \in Objs, b \in Objs :
       /\ Ready(a) /\ Ready(b)
       /\ \E r \in {equal(St, a, b)} :
            Record("equal", a, Sentinel(b), 0, Null, Null, Null, Bool(r.val), 0,
                   [St EXCEPT !.ub = r.ub])
  /\ UNCHANGED <<built, ref>>

NotEqual ==
  /\ \E a \in Objs, b \in Objs :
       /\ Ready(a) /\ Ready(b)
       /\ \E r \in {not_equal(St, a, b)} :
            Record("not_equal", a, Sentinel(b), 0, Null, Null, Null, Bool(r.val), 0,
                   [St EXCEPT !.ub = r.ub])
  /\ UNCHANGED <<built, ref>>

\* The operations of one object, on either object.
CInsert == \E b \in Objs : Insert(b, Lefts2, Rights2)
CEraseLeft == \E b \in Objs : EraseLeft(b, Lefts2)
CEraseRight == \E b \in Objs : EraseRight(b, Rights2)
CEraseLeftIt == \E b \in Objs : EraseLeftIt(b)
CEraseRightIt == \E b \in Objs : EraseRightIt(b)
CEraseLeftRange == \E b \in Objs : EraseLeftRange(b)
CEraseRightRange == \E b \in Objs : EraseRightRange(b)
CAtLeftOrDefault == \E b \in Objs : AtLeftOrDefault(b, Lefts2)
CAtRightOrDefault == \E b \in Objs : AtRightOrDefault(b, Rights2)

\* Two objects under insert, erase, at_or_default, swap, copy, comparison and
\* destruction.
NextCopy ==
  \/ CInsert
  \/ CEraseLeft
  \/ CEraseRight
  \/ CEraseLeftIt
  \/ CEraseRightIt
  \/ CEraseLeftRange
  \/ CEraseRightRange
  \/ CAtLeftOrDefault
  \/ CAtRightOrDefault
  \/ DefaultConstruct
  \/ CopyConstruct
  \/ CopyAssign
  \/ Swap
  \/ Equal
  \/ NotEqual
  \/ Destroy

SpecCopy == Init /\ [][NextCopy]_vars

MInsert == \E b \in Objs : size_[b] < MaxSize /\ Insert(b, Lefts2, Rights2)

\* Two objects under insert, move construction, move assignment and destruction.
NextMove ==
  \/ MInsert
  \/ DefaultConstruct
  \/ MoveConstruct
  \/ MoveAssign
  \/ Destroy

SpecMove == Init /\ [][NextMove]_vars

\* ------------------------------------------------- the two-map reference
\* Two plain maps, each a set of <<key, value>> with at most one pair per key.
\* insert is rejected when either key exists; ret is what the operation returns:
\* the left key inserted (Wild when rejected), or whether the erase found its key.
ref_insert(m, left, right) ==
  IF (\E p \in m.lr : p[1] = left) \/ (\E q \in m.rl : q[1] = right)
  THEN [m |-> m, ret |-> Wild]
  ELSE [m |-> [lr |-> m.lr \cup {<<left, right>>}, rl |-> m.rl \cup {<<right, left>>}],
        ret |-> left]

ref_erase_left(m, left) ==
  LET hit == {p \in m.lr : p[1] = left}
  IN  [m |-> [lr |-> m.lr \ hit, rl |-> m.rl \ {<<p[2], p[1]>> : p \in hit}],
       ret |-> Bool(hit # {})]

ref_erase_right(m, right) ==
  LET hit == {q \in m.rl : q[1] = right}
  IN  [m |-> [lr |-> m.lr \ {<<q[2], q[1]>> : q \in hit}, rl |-> m.rl \ hit],
       ret |-> Bool(hit # {})]

\* The same operation applied to the bimap and to the reference.
RefInsert ==
  /\ Ready("A")
  /\ \E left \in Lefts, right \in Rights, yl \in Prios, yr \in Prios :
       \E r \in {insert(St, "A", left, right, yl, yr)}, rr \in {ref_insert(ref, left, right)} :
           /\ r.ok
           /\ Record("insert", "A", left, right, Null, Null, r.it, deref(r.st, "l", r.it), rr.ret, r.st)
           /\ ref' = rr.m
  /\ UNCHANGED built

RefEraseLeft ==
  /\ Ready("A")
  /\ \E left \in Lefts :
       \E r \in {erase_left(St, "A", left)}, rr \in {ref_erase_left(ref, left)} :
           /\ Record("erase_left", "A", left, 0, Null, Null, Null, Bool(r.found), rr.ret, r.st)
           /\ ref' = rr.m
  /\ UNCHANGED built

RefEraseRight ==
  /\ Ready("A")
  /\ \E right \in Rights :
       \E r \in {erase_right(St, "A", right)}, rr \in {ref_erase_right(ref, right)} :
           /\ Record("erase_right", "A", right, 0, Null, Null, Null, Bool(r.found), rr.ret, r.st)
           /\ ref' = rr.m
  /\ UNCHANGED built

NextRef == RefInsert \/ RefEraseLeft \/ RefEraseRight

SpecRef == Init /\ [][NextRef]_vars

\* ------------------------------------------------------------ the claims
Recorded(op) == last.op = op
PreLefts == {e[2] : e \in pre.ents[last.b]}
PreRights == {e[3] : e \in pre.ents[last.b]}
PrePairs == {<<e[2], e[3]>> : e \in pre.ents[last.b]}

\* The entries of b, as either index reaches them.
LiveEntries(b) == Entries(St, "l", b) \cup Entries(St, "r", b)

\* The in-order successor of pair object n on side s among the entries of b: the
\* entry with the least greater value, or end.
SuccOf(s, b, n) ==
  LET above == {m \in Range(Index(St, s, b)) : elem[s][m] > elem[s][n]}
  IN  IF above = {} THEN set_end(b)
      ELSE CHOOSE m \in above : \A k \in above : elem[s][m] <= elem[s][k]

\* The in-order predecessor, Null when n holds the least value.
PredOf(s, b, n) ==
  LET below == {m \in Range(Index(St, s, b)) : elem[s][m] < elem[s][n]}
  IN  IF below = {} THEN Null
      ELSE CHOOSE m \in below : \A k \in below : elem[s][m] >= elem[s][k]

\* C1 (Uniqueness): in every reachable state of a bimap driven by insert, the
\* erases (by value, position, range) and at_left_or_default/at_right_or_default,
\* no two distinct live entries hold equal left values and no two hold equal
\* right values.
C1_Uniqueness ==
  \A b \in built : \A e1, e2 \in LiveEntries(b) :
    e1 # e2 => e1[2] # e2[2] /\ e1[3] # e2[3]

\* at_right_or_default(k) displaced the holder of Left() while another entry stayed.
C1_Witness ==
  /\ Recorded("at_right_or_default")
  /\ DefaultLeft \in PreLefts
  /\ last.a1 \notin PreRights
  /\ Cardinality(LiveEntries(last.b)) = 2

\* C2 (insert is a no-op on conflict): insert(L, R) with L present on the left or
\* R present on the right returns end_left(), leaves size() and every entry (its
\* object and both values) as they were, and leaves both indices holding exactly
\* the same entries: the new value is in neither.
C2_InsertConflictNoOp ==
  (Recorded("insert") /\ (last.a1 \in PreLefts \/ last.a2 \in PreRights)) =>
    /\ last.it = end_left(last.b)
    /\ size_[last.b] = pre.size[last.b]
    /\ Entries(St, "l", last.b) = pre.ents[last.b]
    /\ Entries(St, "r", last.b) = pre.ents[last.b]
    /\ alloc = {e[1] : e \in UNION {pre.ents[b] : b \in Bimaps}}

\* insert(L, R) where only R is taken: the left lookup misses, the right one hits.
C2_Witness ==
  /\ Recorded("insert")
  /\ last.a1 \notin PreLefts
  /\ last.a2 \in PreRights
  /\ size_[last.b] = 2

\* C5 (Ordering): on each side, stepping with ++ from begin reaches end after
\* exactly size() steps and the values visited increase strictly.
C5_Ordering ==
  \A b \in built : \A s \in Sides :
    LET seq == Iter(St, s, b)
    IN  /\ Len(seq) = size_[b]
        /\ IterStop(St, s, b, set_begin(St, s, b), MaxNodes + 1) = set_end(b)
        /\ \A i \in 1..(Len(seq) - 1) : elem[s][seq[i]] < elem[s][seq[i + 1]]

\* Three entries after a lookup split and re-merged a tree whose root is not the
\* middle element.
C5_Witness ==
  /\ Recorded("upper_bound_right")
  /\ size_[last.b] = 3
  /\ \E n \in alloc : link["l"][n].parent \in Nodes /\ link["l"][link["l"][n].parent].parent \in Nodes

\* C6 (flip is a bijection on live entries): for every live entry e,
\* find_left(e.left).flip() == find_right(e.right) and
\* find_right(e.right).flip() == find_left(e.left), and flipping twice gives the
\* position back.
C6_FlipBijective ==
  \A b \in built : \A e \in LiveEntries(b) :
    LET fl == find_left(St, b, e[2])
        fr == find_right(fl.st, b, e[3])
        st == fr.st
    IN  /\ fl.it \in Nodes /\ fr.it \in Nodes
        /\ flip(st, "l", fl.it) = fr.it
        /\ flip(st, "r", fr.it) = fl.it
        /\ flip(st, "r", flip(st, "l", fl.it)) = fl.it
        /\ flip(st, "l", flip(st, "r", fr.it)) = fr.it
        /\ deref(st, "r", flip(st, "l", fl.it)) = e[3]
        /\ deref(st, "l", flip(st, "r", fr.it)) = e[2]

\* Three entries whose left order and right order differ.
C6_Witness ==
  /\ size_["A"] = 3
  /\ \E e1, e2 \in LiveEntries("A") : e1[2] < e2[2] /\ e1[3] > e2[3]
  /\ Recorded("find_right")


\* C8 (default eviction): at_left_or_default(K2) with K2 absent from the left
\* erases the entry (K1, Right()) if there is one and inserts (K2, Right()):
\* afterwards find_left(K1) == end_left(), at_left(K2) == Right(), size() is
\* unchanged and the reference returned is the right value of a live entry; with
\* no holder of Right() size() grows by one.  Likewise at_right_or_default with
\* Left().  All other entries stay.
C8_DefaultEviction ==
  /\ (Recorded("at_left_or_default") /\ last.a1 \notin PreLefts) =>
       LET b       == last.b
           holders == {e \in pre.ents[b] : e[3] = DefaultRight}
           new     == <<last.it, last.a1, DefaultRight>>
           at      == at_left(St, b, last.a1)
       IN  /\ last.it \in alloc
           /\ last.val = DefaultRight
           /\ Entries(St, "l", b) = (pre.ents[b] \ holders) \cup {new}
           /\ Entries(St, "r", b) = Entries(St, "l", b)
           /\ \A e \in holders : find_left(St, b, e[2]).it = end_left(b)
           /\ ~at.thrown /\ at.val = DefaultRight
           /\ size_[b] = IF holders = {} THEN pre.size[b] + 1 ELSE pre.size[b]
  /\ (Recorded("at_right_or_default") /\ last.a1 \notin PreRights) =>
       LET b       == last.b
           holders == {e \in pre.ents[b] : e[2] = DefaultLeft}
           new     == <<last.it, DefaultLeft, last.a1>>
           at      == at_right(St, b, last.a1)
       IN  /\ last.it \in alloc
           /\ last.val = DefaultLeft
           /\ Entries(St, "l", b) = (pre.ents[b] \ holders) \cup {new}
           /\ Entries(St, "r", b) = Entries(St, "l", b)
           /\ \A e \in holders : find_right(St, b, e[3]).it = end_right(b)
           /\ ~at.thrown /\ at.val = DefaultLeft
           /\ size_[b] = IF holders = {} THEN pre.size[b] + 1 ELSE pre.size[b]

\* at_left_or_default(K2) displaced (K1, Right()) while another entry stayed.
C8_Witness ==
  /\ Recorded("at_left_or_default")
  /\ last.a1 \notin PreLefts
  /\ DefaultRight \in PreRights
  /\ pre.size[last.b] = 2
  /\ size_[last.b] = 2

\* The entries of the recorded object that the operation kept: those whose
\* association is there before and after.
Survivors == {e \in pre.ents[last.b] : <<e[2], e[3]>> \in Pairs(St, last.b)}

\* C9 (entry-scoped invalidation): after any operation, a position obtained
\* before it for an entry that is still live denotes that entry: the pair object
\* holds the same two values, flip gives the paired position, ++ moves to the
\* in-order successor (or end) and -- to the in-order predecessor of the state
\* after the operation, on both sides.
C9_PositionsSurvive ==
  last.op # "none" =>
    \A e \in Survivors :
      LET n == e[1]
          b == last.b
      IN  /\ n \in alloc
          /\ deref(St, "l", n) = e[2]
          /\ deref(St, "r", n) = e[3]
          /\ flip(St, "l", n) = n
          /\ flip(St, "r", n) = n
          /\ \A s \in Sides :
               /\ n \in Range(Index(St, s, b))
               /\ get_next(St, s, n) = SuccOf(s, b, n)
               /\ PredOf(s, b, n) # Null => get_prev(St, s, n) = PredOf(s, b, n)

\* A position erase out of three entries: two survive and are relinked.
C9_Witness ==
  /\ Recorded("erase_right_it")
  /\ pre.size[last.b] = 3
  /\ Cardinality(Survivors) = 2

\* C10 (successful insert): insert(L, R) with L absent from the left and R absent
\* from the right grows size() by one, returns a left position that dereferences
\* to L and whose flip dereferences to R, adds exactly (L, R) to both indices and
\* leaves every earlier entry as it was.
C10_InsertSucceeds ==
  (Recorded("insert") /\ last.a1 \notin PreLefts /\ last.a2 \notin PreRights) =>
    LET b == last.b
    IN  /\ size_[b] = pre.size[b] + 1
        /\ last.it \in alloc
        /\ last.it \notin {e[1] : e \in pre.ents[b]}
        /\ last.val = last.a1
        /\ deref(St, "l", last.it) = last.a1
        /\ deref(St, "r", flip(St, "l", last.it)) = last.a2
        /\ Entries(St, "l", b) = pre.ents[b] \cup {<<last.it, last.a1, last.a2>>}
        /\ Entries(St, "r", b) = Entries(St, "l", b)

\* The third entry went in between two others.
C10_Witness ==
  /\ Recorded("insert")
  /\ last.a1 \notin PreLefts /\ last.a2 \notin PreRights
  /\ pre.size[last.b] = 2
  /\ \E e1, e2 \in pre.ents[last.b] : e1[2] < last.a1 /\ last.a1 < e2[2]


\* C3 (round trip against the reference): along every sequence of insert(L, R),
\* erase_left(value) and erase_right(value), the bimap and the two-map reference
\* return the same value at every step (the key inserted or a rejection, found
\* or not found) and hold the same set of (L, R) associations.
C3_MatchesReference ==
  /\ Pairs(St, "A") = ref.lr
  /\ {<<e[3], e[2]>> : e \in Entries(St, "r", "A")} = ref.rl
  /\ last.op # "none" => last.val = last.ref
  /\ Recorded("insert") => (last.it = end_left("A") <=> last.ref = Wild)

\* An erase by right value that found its key, after which the reference and the
\* bimap still hold two associations.
C3_Witness ==
  /\ Recorded("erase_right")
  /\ last.ref = 1
  /\ Cardinality(ref.lr) = 2
  /\ pre.size["A"] = 3


\* C4 (index/size consistency): after every completed insert, erase (by value,
\* position, range), at_left_or_default, at_right_or_default, swap and copy, in
\* every bimap the entries met from begin_left() to end_left() are the entries
\* met from begin_right() to end_right(), each exactly once on each side, size()
\* is their number and empty() holds exactly when it is 0.
C4_IndexSizeConsistent ==
  /\ ~ub
  /\ \A b \in built :
       LET lseq == Iter(St, "l", b)
           rseq == Iter(St, "r", b)
       IN  /\ IterStop(St, "l", b, begin_left(St, b), MaxNodes + 1) = end_left(b)
           /\ IterStop(St, "r", b, begin_right(St, b), MaxNodes + 1) = end_right(b)
           /\ Range(lseq) = Range(rseq)
           /\ Range(lseq) \subseteq alloc
           /\ Cardinality(Range(lseq)) = Len(lseq)
           /\ Cardinality(Range(rseq)) = Len(rseq)
           /\ size(St, b) = Len(lseq)
           /\ empty(St, b) <=> Len(lseq) = 0
  /\ \A a \in built, b \in built : a # b => Range(Iter(St, "l", a)) \cap Range(Iter(St, "l", b)) = {}

\* A copy assignment that replaced one entry of A by the two entries of B.
C4_Witness ==
  /\ Recorded("copy_assign")
  /\ last.b = "A" /\ last.a1 = Sentinel("B")
  /\ pre.size["A"] = 1 /\ size_["A"] = 2 /\ size_["B"] = 2

\* The bimap object at the address a1 of the recorded operation.
OtherObj == CHOOSE o \in Bimaps : Sentinel(o) = last.a1

\* C7 (a moved-from bimap is empty): after move-constructing a bimap from b, or
\* move-assigning b into a distinct bimap, b has size() == 0,
\* begin_left() == end_left() and begin_right() == end_right().
C7_MovedFromEmpty ==
  (Recorded("move_construct") \/ (Recorded("move_assign") /\ last.a1 # Sentinel(last.b))) =>
    /\ ~ub
    /\ size(St, OtherObj) = 0
    /\ begin_left(St, OtherObj) = end_left(OtherObj)
    /\ begin_right(St, OtherObj) = end_right(OtherObj)

\* ------------------------------------------------ claims C11 to C20
\* The value an entry <<n, left, right>> holds on side s.
Val(s, e) == IF s = "l" THEN e[2] ELSE e[3]

\* The side whose positions the recorded operation takes.
OpSide ==
  IF last.op \in {"erase_left_range", "erase_left_it", "find_left", "lower_bound_left",
                  "upper_bound_left", "erase_left", "at_left"}
  THEN "l" ELSE "r"

\* The entry of the recorded object that was at position p before the operation.
PreAt(p) == {e \in pre.ents[last.b] : e[1] = p}

\* The entries of [p1, p2) before the recorded range erase, on its side.
PreRange ==
  {e \in pre.ents[last.b] :
     /\ \E f \in PreAt(last.p1) : Val(OpSide, f) <= Val(OpSide, e)
     /\ last.p2 # set_end(last.b) =>
          \E g \in PreAt(last.p2) : Val(OpSide, e) < Val(OpSide, g)}

\* The position, before the operation, of the first entry of the recorded object
\* whose value on side s is at least v (strictly above v when strict): end if none.
PreBound(s, v, strict) ==
  LET cand == {e \in pre.ents[last.b] : IF strict THEN Val(s, e) > v ELSE Val(s, e) >= v}
  IN  IF cand = {} THEN set_end(last.b)
      ELSE (CHOOSE e \in cand : \A f \in cand : Val(s, e) <= Val(s, f))[1]

\* Both indices of the recorded object hold exactly the entries ents, its size_
\* is n, the pair objects of ents are allocated and those it lost are released.
HoldsExactly(ents, n) ==
  /\ ~ub
  /\ Entries(St, "l", last.b) = ents
  /\ Entries(St, "r", last.b) = ents
  /\ size_[last.b] = n
  /\ \A e \in pre.ents[last.b] \ ents : e[1] \notin alloc
  /\ \A e \in ents : e[1] \in alloc

\* C11 (range and position erase): erase_left(first, last) and
\* erase_right(first, last) over a valid range remove exactly the entries of
\* [first, last) from both indices, decrease size() by their number, leave every
\* other pair as it was, terminate and return last; erase_left(it) and
\* erase_right(it) at a valid position that is not end remove that one entry and
\* return the position of its in-order successor, or end.
C11_RangeErase ==
  /\ (Recorded("erase_left_range") \/ Recorded("erase_right_range")) =>
       /\ HoldsExactly(pre.ents[last.b] \ PreRange,
                       pre.size[last.b] - Cardinality(PreRange))
       /\ last.it = last.p2
  /\ (Recorded("erase_left_it") \/ Recorded("erase_right_it")) =>
       /\ Cardinality(PreAt(last.p1)) = 1
       /\ HoldsExactly(pre.ents[last.b] \ PreAt(last.p1), pre.size[last.b] - 1)
       /\ \A e \in PreAt(last.p1) : last.it = PreBound(OpSide, Val(OpSide, e), TRUE)

\* A right-side range of two entries out of three, ending before the last one.
C11_Witness ==
  /\ Recorded("erase_right_range")
  /\ pre.size[last.b] = 3
  /\ size_[last.b] = 1
  /\ last.p2 # end_right(last.b)

\* C12 (erase by value): erase_left(v) returns true and removes exactly the entry
\* whose left value is v from both indices, size() going down by one, when there
\* is such an entry; otherwise it returns false and leaves size() and every pair
\* as they were.  Likewise erase_right(v).
C12_EraseByValue ==
  (Recorded("erase_left") \/ Recorded("erase_right")) =>
    LET hit == {e \in pre.ents[last.b] : Val(OpSide, e) = last.a1}
    IN  /\ last.val = Bool(hit # {})
        /\ HoldsExactly(pre.ents[last.b] \ hit, pre.size[last.b] - Cardinality(hit))
        /\ Cardinality(hit) <= 1

\* erase_right(v) found v among three entries.
C12_Witness ==
  /\ Recorded("erase_right")
  /\ last.val = 1
  /\ pre.size[last.b] = 3
  /\ size_[last.b] = 2

\* C13 (at): at_left(k) returns the right value paired with k when k is on the
\* left and throws std::out_of_range exactly when it is not; either way size()
\* and the pairs are as before.  Likewise at_right.
C13_At ==
  (Recorded("at_left") \/ Recorded("at_right")) =>
    LET hit == {e \in pre.ents[last.b] : Val(OpSide, e) = last.a1}
    IN  /\ last.a2 = Bool(hit = {})
        /\ \A e \in hit : last.val = Val(Other(OpSide), e)
        /\ HoldsExactly(pre.ents[last.b], pre.size[last.b])

\* at_right(k) returned the left value of one of three entries, which is not k.
C13_Witness ==
  /\ Recorded("at_right")
  /\ last.a2 = 0
  /\ last.val # last.a1
  /\ size_[last.b] = 3

\* C15 (lookup results): for every query value v, lower_bound_left(v) is the
\* position of the smallest left value not less than v, upper_bound_left(v) that
\* of the smallest left value above v, find_left(v) that of the entry whose left
\* value is v; each is end_left() when there is no such entry.  Likewise on the
\* right side.
C15_LookupResults ==
  /\ (Recorded("lower_bound_left") \/ Recorded("lower_bound_right")) =>
       last.it = PreBound(OpSide, last.a1, FALSE)
  /\ (Recorded("upper_bound_left") \/ Recorded("upper_bound_right")) =>
       last.it = PreBound(OpSide, last.a1, TRUE)
  /\ (Recorded("find_left") \/ Recorded("find_right")) =>
       LET hit == {e \in pre.ents[last.b] : Val(OpSide, e) = last.a1}
       IN  /\ hit = {} => last.it = set_end(last.b)
           /\ \A e \in hit : last.it = e[1]

\* upper_bound_right of a value that is held, with a greater one after it.
C15_Witness ==
  /\ Recorded("upper_bound_right")
  /\ last.a1 \in PreRights
  /\ last.it \in alloc
  /\ size_[last.b] = 3

RECURSIVE Ascending(_, _)
Ascending(s, ents) ==
  IF ents = {} THEN <<>>
  ELSE LET m == CHOOSE e \in ents : \A f \in ents : Val(s, e) <= Val(s, f)
       IN  <<m[1]>> \o Ascending(s, ents \ {m})

\* Bimap o iterates, on both sides, the entries it held before the operation, in
\* ascending order, each at the address it had, and its size_ is as it was.
Untouched(o) ==
  /\ Entries(St, "l", o) = pre.ents[o]
  /\ Entries(St, "r", o) = pre.ents[o]
  /\ size_[o] = pre.size[o]
  /\ \A e \in pre.ents[o] : e[1] \in alloc
  /\ \A s \in Sides :
       /\ Iter(St, s, o) = Ascending(s, pre.ents[o])
       /\ IterStop(St, s, o, set_begin(St, s, o), MaxNodes + 1) = set_end(o)

\* C18 (lookups preserve the observable state): find_left/right,
\* lower_bound_left/right and upper_bound_left/right split and re-merge the tree,
\* and after each call the membership, the in-order sequence of both sides,
\* size() and the position of every entry and of end are those before the call.
C18_LookupsPreserve ==
  last.op \in {"find_left", "find_right", "lower_bound_left", "lower_bound_right",
               "upper_bound_left", "upper_bound_right"} =>
    /\ ~ub
    /\ Untouched(last.b)
    /\ alloc = {e[1] : e \in pre.ents[last.b]}

\* lower_bound_left of the middle one of three entries, which the split separates
\* from the least one.
C18_Witness ==
  /\ Recorded("lower_bound_left")
  /\ size_[last.b] = 3
  /\ last.it \in alloc
  /\ \E e \in pre.ents[last.b] : e[2] < last.a1

\* The pair object of bimap b that holds the greatest value on side s.
MaxNode(s, b) ==
  (CHOOSE e \in Entries(St, s, b) : \A f \in Entries(St, s, b) : Val(s, f) <= Val(s, e))[1]

\* C19 (stepping at the end of the range): in every non-empty state --end_left()
\* is the position of the greatest left value and ++ of that position is
\* end_left(); likewise on the right side; in the empty state begin == end on
\* both sides.
C19_EndStepping ==
  \A b \in built : \A s \in Sides :
    IF Entries(St, s, b) = {}
    THEN set_begin(St, s, b) = set_end(b)
    ELSE /\ get_prev(St, s, set_end(b)) = MaxNode(s, b)
         /\ get_next(St, s, MaxNode(s, b)) = set_end(b)

\* Three entries; the greatest right value is not at the tree root and the
\* greatest left value is.
C19_Witness ==
  /\ Recorded("insert")
  /\ size_[last.b] = 3
  /\ link["r"][MaxNode("r", last.b)].parent \in Nodes
  /\ link["l"][MaxNode("l", last.b)].parent = Sentinel(last.b)

\* The pair objects that bimap b reaches through either index.
NodesOf(b) == {e[1] : e \in LiveEntries(b)}

\* The (left, right) values of bimap o in ascending order of the left values.
RankSeq(o) ==
  [i \in 1..Len(Iter(St, "l", o)) |->
     <<elem["l"][Iter(St, "l", o)[i]], elem["r"][Iter(St, "l", o)[i]]>>]

\* C14 (copy independence): right after copy-constructing or copy-assigning c
\* from s, c == s holds (same pairs, same size) and s is as it was; afterwards an
\* insert, erase or at_*_or_default applied to one of them leaves the pairs, the
\* size and the iteration order of the other as they were, and no pair object
\* belongs to both.
C14_CopyIndependence ==
  /\ (Recorded("copy_construct") \/ Recorded("copy_assign")) =>
       /\ ~ub
       /\ Pairs(St, last.b) = Pairs(St, OtherObj)
       /\ size_[last.b] = size_[OtherObj]
       /\ size_[last.b] = Cardinality(Pairs(St, last.b))
       /\ RankSeq(last.b) = RankSeq(OtherObj)
       /\ equal(St, last.b, OtherObj) = [val |-> TRUE, ub |-> FALSE]
       /\ Untouched(OtherObj)
  /\ last.op \in {"insert", "erase_left", "erase_right", "erase_left_it", "erase_right_it",
                  "erase_left_range", "erase_right_range", "at_left_or_default",
                  "at_right_or_default"} =>
       \A o \in built \ {last.b} : Untouched(o)
  /\ \A a \in built, b \in built : a # b => NodesOf(a) \cap NodesOf(b) = {}

\* B, which held one entry, was assigned the two entries of A.
C14_Witness ==
  /\ Recorded("copy_assign")
  /\ last.b = "B" /\ last.a1 = Sentinel("A")
  /\ pre.size["B"] = 1 /\ size_["B"] = 2 /\ size_["A"] = 2
  /\ NodesOf("A") \cap NodesOf("B") = {}

\* C17 (equality): a == b is true exactly when a.size() == b.size() and, in
\* ascending order of the left values, the left and the paired right values agree
\* at every rank; a != b is its negation; the comparison changes neither operand.
C17_Equality ==
  /\ Recorded("equal") =>
       last.val = Bool(size_[last.b] = size_[OtherObj] /\ RankSeq(last.b) = RankSeq(OtherObj))
  /\ Recorded("not_equal") =>
       last.val = Bool(~(size_[last.b] = size_[OtherObj] /\ RankSeq(last.b) = RankSeq(OtherObj)))
  /\ (Recorded("equal") \/ Recorded("not_equal")) =>
       /\ ~ub
       /\ Untouched(last.b)
       /\ Untouched(OtherObj)

\* Two bimaps of two entries with the same left values, paired differently.
C17_Witness ==
  /\ Recorded("equal")
  /\ last.b = "A" /\ last.a1 = Sentinel("B")
  /\ size_["A"] = 2 /\ size_["B"] = 2
  /\ {e[2] : e \in pre.ents["A"]} = {e[2] : e \in pre.ents["B"]}
  /\ last.val = 0

\* C20 (move construction transfers a well-formed structure): after
\* move-constructing t from a source s that held n entries, t holds exactly the
\* pairs s held, t.size() == n, and stepping with ++ from t.begin_left() reaches
\* t.end_left() after n steps, likewise on the right: the parent link of the
\* transferred tree root designates the sentinel of t.
C20_MoveTransfersWellFormed ==
  Recorded("move_construct") =>
    /\ ~ub
    /\ Pairs(St, last.b) = {<<e[2], e[3]>> : e \in pre.ents[OtherObj]}
    /\ size(St, last.b) = Cardinality(pre.ents[OtherObj])
    /\ \A s \in Sides :
         /\ Len(Iter(St, s, last.b)) = Cardinality(pre.ents[OtherObj])
         /\ IterStop(St, s, last.b, set_begin(St, s, last.b), MaxNodes + 1) = set_end(last.b)
         /\ link[s][Sentinel(last.b)].left # Null =>
              link[s][link[s][Sentinel(last.b)].left].parent = Sentinel(last.b)

\* --------------------------------------- two objects under lookups and swap
CFindLeft == \E b \in Objs : FindLeft(b)
CFindRight == \E b \in Objs : FindRight(b)
CLowerBoundLeft == \E b \in Objs : LowerBoundLeft(b)
CLowerBoundRight == \E b \in Objs : LowerBoundRight(b)
CUpperBoundLeft == \E b \in Objs : UpperBoundLeft(b)
CUpperBoundRight == \E b \in Objs : UpperBoundRight(b)

\* Two objects under insert, every erase, every lookup and swap.
NextLinks ==
  \/ CInsert
  \/ CEraseLeft
  \/ CEraseRight
  \/ CEraseLeftIt
  \/ CEraseRightIt
  \/ CEraseLeftRange
  \/ CEraseRightRange
  \/ CFindLeft
  \/ CFindRight
  \/ CLowerBoundLeft
  \/ CLowerBoundRight
  \/ CUpperBoundLeft
  \/ CUpperBoundRight
  \/ DefaultConstruct
  \/ Swap

SpecLinks == Init /\ [][NextLinks]_vars

\* C21 (link consistency of each index): after every completed insert, erase,
\* find, lower_bound, upper_bound and swap, every node n of a tree has
\* n.left.parent == n when n.left is not null and n.right.parent == n when
\* n.right is not null; the parent of the tree root is the sentinel of the index,
\* the sentinel's left child is the tree root (null when the index is empty), the
\* sentinel's right child and parent are null; an erased node has parent, left
\* and right all null.
C21_LinkConsistency ==
  /\ ~ub
  /\ \A b \in built : \A s \in Sides :
       /\ \A n \in Range(Index(St, s, b)) :
            /\ n \in alloc
            /\ link[s][n].left # Null => link[s][link[s][n].left].parent = n
            /\ link[s][n].right # Null => link[s][link[s][n].right].parent = n
       /\ link[s][Sentinel(b)].left # Null =>
            link[s][link[s][Sentinel(b)].left].parent = Sentinel(b)
       /\ (link[s][Sentinel(b)].left = Null) <=> (size_[b] = 0)
       /\ Cardinality(Range(Index(St, s, b))) = size_[b]
       /\ link[s][Sentinel(b)].right = Null
       /\ link[s][Sentinel(b)].parent = Null
  /\ \A s \in Sides : \A n \in Nodes \ alloc : link[s][n] = Unlinked
  /\ (last.op \in {"erase_left", "erase_right", "erase_left_it", "erase_right_it",
                   "erase_left_range", "erase_right_range"}) =>
       \A e \in pre.ents[last.b] \ Entries(St, "l", last.b) :
         \A s \in Sides : link[s][e[1]] = Unlinked

\* A swap exchanged the two-entry tree of B with the one-entry tree of A.
C21_Witness ==
  /\ Recorded("swap")
  /\ last.b = "A" /\ last.a1 = Sentinel("B")
  /\ pre.size["A"] = 1 /\ pre.size["B"] = 2
  /\ size_["A"] = 2 /\ size_["B"] = 1
  /\ link["l"][link["l"][Sentinel("A")].left].parent = Sentinel("A")

=============================================================================
